---- MODULE Spec2Model ----
(***************************************************************************)
(* A model of xml2abx (src/src/lib.rs): the primitive big-endian writer    *)
(* FastDataOutput with its string pool, the token emitter                  *)
(* BinaryXmlSerializer, the attribute classifier type_detection /          *)
(* write_attribute, and the event loop convert_reader_with_options.        *)
(*                                                                         *)
(* A Rust &str is its UTF-8 bytes: strings are sequences of bytes 0..255,  *)
(* str::len is Len, str::chars is the decoding CodePointAt at every lead   *)
(* byte.  A Result is the field res of the writer record: "Ok" or the name *)
(* of the ConversionError variant; the ? operator is "skip the rest when   *)
(* res is not Ok".                                                         *)
(***************************************************************************)
EXTENDS Integers, Sequences, FiniteSets, TLC

VARIABLES
    pc,         \* where the client of the encoder stands
    fdo,        \* a FastDataOutput used on its own (SpecWriter, SpecPool)
    ser,        \* a BinaryXmlSerializer (SpecAttr, SpecEmitter, Spec)
    tag_stack,  \* convert_reader_with_options: the local tag_stack
    warnings,   \* number of show_warning calls made
    result,     \* what the conversion returned ("Pending" until it returns)
    calls,      \* history: the calls / events handled so far, in order
    prev        \* history: the encoder as it was before the last call

vars == <<pc, fdo, ser, tag_stack, warnings, result, calls, prev>>

----------------------------------------------------------------------------
(* Bounds of the model.                                                    *)

\* calls made on a FastDataOutput in SpecWriter
MaxWrites == 2
\* write_attribute calls in SpecAttr
MaxAttrCalls == 2
\* emitter calls in SpecEmitter
MaxCalls == 2
\* events the reader delivers before end-of-stream in Spec
MaxEvents == 3

----------------------------------------------------------------------------
(* Bytes, UTF-8 and the strings the model draws.                           *)

Max(a, b) == IF a >= b THEN a ELSE b

\* n copies of byte b, as a sequence
Rep(b, n) == [i \in 1..n |-> b] \o <<>>

\* the low `n` bytes of the two's-complement integer v, big-endian
\* (\div rounds down and % is non-negative, so this sign-extends)
BigEndian(v, n) ==
    [i \in 1..n |->
        IF n - i >= 4 THEN (IF v < 0 THEN 255 ELSE 0)
        ELSE (v \div (256 ^ (n - i))) % 256]

IsCont(b) == b >= 128 /\ b < 192

\* the number of bytes of the UTF-8 sequence a lead byte announces; 0 for a
\* byte that cannot start a sequence
Utf8Width(b) ==
    IF b < 128 THEN 1
    ELSE IF b >= 194 /\ b < 224 THEN 2
    ELSE IF b >= 224 /\ b < 240 THEN 3
    ELSE IF b >= 240 /\ b < 245 THEN 4
    ELSE 0

\* one byte of run_utf8_validation: a lead byte is followed by exactly its
\* continuation bytes (no overlong form, no surrogate, nothing above
\* U+10FFFF), a continuation byte follows its lead byte
Utf8ByteOk(b, n, i) ==
    IF IsCont(b[i])
    THEN \E w \in 1..3 :
            /\ i - w >= 1
            /\ Utf8Width(b[i - w]) > w
            /\ \A k \in 1..(w - 1) : IsCont(b[i - k])
    ELSE /\ Utf8Width(b[i]) > 0
         /\ i + Utf8Width(b[i]) - 1 <= n
         /\ \A k \in 1..(Utf8Width(b[i]) - 1) : IsCont(b[i + k])
         /\ b[i] = 224 => b[i + 1] >= 160
         /\ b[i] = 237 => b[i + 1] < 160
         /\ b[i] = 240 => b[i + 1] >= 144
         /\ b[i] = 244 => b[i + 1] < 144

\* std::str::from_utf8(b).is_ok(): all ASCII, or well-formed byte by byte
from_utf8_ok(b) ==
    \/ \A i \in 1..Len(b) : b[i] < 128
    \/ \A i \in 1..Len(b) : Utf8ByteOk(b, Len(b), i)

\* str::chars: a character starts at position i
IsCharStart(s, i) == ~IsCont(s[i])

\* str::chars: the code point that starts at position i (below U+10000; the
\* model draws no 4-byte character)
CodePointAt(s, i) ==
    IF s[i] < 128 THEN s[i]
    ELSE IF s[i] < 224 THEN (s[i] - 192) * 64 + (s[i + 1] - 128)
    ELSE (s[i] - 224) * 4096 + (s[i + 1] - 128) * 64 + (s[i + 2] - 128)

\* char::is_whitespace: the Unicode White_Space property
IsWhitespaceChar(c) ==
    \/ c >= 9 /\ c <= 13
    \/ c = 32
    \/ c = 133
    \/ c = 160
    \/ c = 5760
    \/ c >= 8192 /\ c <= 8202
    \/ c = 8232
    \/ c = 8233
    \/ c = 8239
    \/ c = 8287
    \/ c = 12288

\* str::contains(char)
ContainsChar(s, c) ==
    \E i \in 1..Len(s) : IsCharStart(s, i) /\ CodePointAt(s, i) = c

----------------------------------------------------------------------------
(* mod type_detection                                                      *)

S_true == <<116, 114, 117, 101>>

S_false == <<102, 97, 108, 115, 101>>

\* is_scientific_notation that looks for the lower-case e only
is_scientific_notation_lower(s) == ContainsChar(s, 101)

is_scientific_notation(s) == ContainsChar(s, 101) \/ ContainsChar(s, 69)

\* is_boolean that ignores case
is_boolean_ignore_case(s) ==
    [i \in 1..Len(s) |-> IF s[i] \in 65..90 THEN s[i] + 32 ELSE s[i]]
        \in {S_true, S_false}

is_boolean(s) == s = S_true \/ s = S_false

is_whitespace_only(s) ==
    \A i \in 1..Len(s) :
        IsCharStart(s, i) => IsWhitespaceChar(CodePointAt(s, i))

----------------------------------------------------------------------------
(* <f64 as FromStr>::from_str, as write_attribute uses it, and the IEEE-754 *)
(* bits write_f64 puts on the wire.  An f64 is its 8 bytes, big-endian.     *)

IsDigit(b) == b >= 48 /\ b <= 57

IsSign(b) == b = 43 \/ b = 45

Lower(b) == IF b >= 65 /\ b <= 90 THEN b + 32 ELSE b

\* the first position >= i of s that holds no digit (Len(s) + 1 if none)
DigitsEnd(s, i) ==
    LET stops == {j \in i..Len(s) : ~IsDigit(s[j])}
    IN  IF stops = {} THEN Max(i, Len(s) + 1)
        ELSE CHOOSE j \in stops : \A k \in stops : j <= k

RECURSIVE DigitsValue(_, _, _)
\* the number the digits s[i..j-1] write
DigitsValue(s, i, j) ==
    IF j <= i THEN 0 ELSE DigitsValue(s, i, j - 1) * 10 + (s[j - 1] - 48)

\* bit k (0 = lowest) of the natural number v
Bit(v, k) == (v \div (2 ^ k)) % 2

\* floor(log2 v) for v >= 1
Log2(v) == CHOOSE e \in 0..30 : 2 ^ e <= v /\ (e = 30 \/ v < 2 ^ (e + 1))

\* bits (highest first) packed into bytes
PackBits(bits) ==
    [i \in 1..(Len(bits) \div 8) |->
        bits[8 * i - 7] * 128 + bits[8 * i - 6] * 64 + bits[8 * i - 5] * 32
        + bits[8 * i - 4] * 16 + bits[8 * i - 3] * 8 + bits[8 * i - 2] * 4
        + bits[8 * i - 1] * 2 + bits[8 * i]]

\* the f64 whose value is the integer v >= 0 (v < 2^31, exactly
\* representable), negated when neg: sign, 11 exponent bits, 52 mantissa bits
F64Bits(neg, v, e, biased) ==
    PackBits([i \in 1..64 |->
        IF i = 1 THEN (IF neg THEN 1 ELSE 0)
        ELSE IF i <= 12 THEN Bit(biased, 12 - i)
        ELSE IF i - 12 <= e THEN Bit(v, e - (i - 12))
        ELSE 0])

F64OfInt(neg, v) ==
    IF v = 0 THEN F64Bits(neg, 0, 0, 0)
    ELSE F64Bits(neg, v, Log2(v), Log2(v) + 1023)

\* where the fraction digits start when the integer digits end at intEnd
FracBegin(u, intEnd) ==
    IF intEnd <= Len(u) /\ u[intEnd] = 46 THEN intEnd + 1 ELSE intEnd

\* where the exponent digits start when the fraction digits end at fracEnd
\* (fracEnd itself when no 'e' / 'E' follows)
ExpBegin(u, fracEnd) ==
    IF fracEnd <= Len(u) /\ Lower(u[fracEnd]) = 101
    THEN IF fracEnd + 1 <= Len(u) /\ IsSign(u[fracEnd + 1])
         THEN fracEnd + 2 ELSE fracEnd + 1
    ELSE fracEnd

ScanExp(u, intEnd, fracBeg, fracEnd, expBeg) ==
    [ intEnd  |-> intEnd,
      fracBeg |-> fracBeg,
      fracEnd |-> fracEnd,
      expBeg  |-> expBeg,
      expEnd  |-> IF expBeg > fracEnd THEN DigitsEnd(u, expBeg) ELSE fracEnd ]

ScanFrac(u, intEnd, fracBeg, fracEnd) ==
    ScanExp(u, intEnd, fracBeg, fracEnd, ExpBegin(u, fracEnd))

ScanInt(u, intEnd, fracBeg) ==
    ScanFrac(u, intEnd, fracBeg, DigitsEnd(u, fracBeg))

\* dec2flt::parse_partial_number: Digit* ['.' Digit*] ['e'|'E' [sign] Digit*]
\* as the positions where each part ends
ScanNumber(u) == ScanInt(u, DigitsEnd(u, 1), FracBegin(u, DigitsEnd(u, 1)))

\* at least one digit, digits after an 'e', and nothing after the number
NumberOk(u, p) ==
    /\ (p.intEnd - 1) + (p.fracEnd - p.fracBeg) >= 1
    /\ p.expBeg > p.fracEnd => p.expEnd > p.expBeg
    /\ p.expEnd = Len(u) + 1

\* the f64 of mant * 10^exp10 where that is an integer below 2^31; the
\* model draws no other number, and the value is <<>> for one
DecToF64(neg, mant, exp10) ==
    IF mant = 0 THEN F64OfInt(neg, 0)
    ELSE IF exp10 >= 0 /\ exp10 <= 6 /\ mant < 1000
         THEN F64OfInt(neg, mant * (10 ^ exp10))
    ELSE IF exp10 < 0 /\ exp10 >= -6 /\ mant < 1000000
            /\ mant % (10 ^ (0 - exp10)) = 0
         THEN F64OfInt(neg, mant \div (10 ^ (0 - exp10)))
    ELSE <<>>

\* the digits of the number, the decimal point dropped
Mantissa(u, p) ==
    DigitsValue(u, 1, p.intEnd) * (10 ^ (p.fracEnd - p.fracBeg))
    + DigitsValue(u, p.fracBeg, p.fracEnd)

\* the written exponent less the number of fraction digits
Exponent10(u, p) ==
    (IF p.expBeg = p.fracEnd + 2 /\ u[p.fracEnd + 1] = 45
     THEN 0 - DigitsValue(u, p.expBeg, p.expEnd)
     ELSE DigitsValue(u, p.expBeg, p.expEnd))
    - (p.fracEnd - p.fracBeg)

NumberResult(neg, u, p) ==
    IF NumberOk(u, p)
    THEN [ok |-> TRUE, value |-> DecToF64(neg, Mantissa(u, p), Exponent10(u, p))]
    ELSE [ok |-> FALSE, value |-> <<>>]

\* dec2flt::parse_number on the unsigned part u
parse_number(neg, u) == NumberResult(neg, u, ScanNumber(u))

\* "inf", "infinity" or "nan" in any case: the infinity or the NaN of the
\* sign
ParseInfNan(neg, low) ==
    IF low = <<105, 110, 102>>
       \/ low = <<105, 110, 102, 105, 110, 105, 116, 121>>
    THEN [ok |-> TRUE,
          value |-> <<IF neg THEN 255 ELSE 127, 240, 0, 0, 0, 0, 0, 0>>]
    ELSE IF low = <<110, 97, 110>>
    THEN [ok |-> TRUE,
          value |-> <<IF neg THEN 255 ELSE 127, 248, 0, 0, 0, 0, 0, 0>>]
    ELSE [ok |-> FALSE, value |-> <<>>]

ParseUnsigned(neg, u, num) ==
    IF Len(u) = 0 THEN [ok |-> FALSE, value |-> <<>>]
    ELSE IF num.ok THEN num
    ELSE ParseInfNan(neg, [i \in 1..Len(u) |-> Lower(u[i])])

Unsigned(s) == IF IsSign(s[1]) THEN SubSeq(s, 2, Len(s)) ELSE s

\* value.parse::<f64>(): an optional sign, then a number, or "inf",
\* "infinity" or "nan" in any case
parse_f64(s) ==
    IF Len(s) = 0 THEN [ok |-> FALSE, value |-> <<>>]
    ELSE ParseUnsigned(s[1] = 45, Unsigned(s),
                       parse_number(s[1] = 45, Unsigned(s)))

----------------------------------------------------------------------------
(* struct FastDataOutput<W: Write>                                         *)
(*                                                                         *)
(* The sink W is a byte buffer that is either unbounded (a Vec) or holds   *)
(* at most `limit` bytes and fails the write that does not fit, keeping    *)
(* the part that did (a fixed slice, a full device).  hist is history: the *)
(* position and the argument of every write_interned_utf call.             *)

MAX_UNSIGNED_SHORT == 65535

Unbounded == [limited |-> FALSE, limit |-> 0]

Bounded(n) == [limited |-> TRUE, limit |-> n]

FastDataOutput_new(sink) ==
    [ writer           |-> <<>>,
      limited          |-> sink.limited,
      limit            |-> sink.limit,
      flushed          |-> 0,
      string_pool      |-> [x \in {} |-> 0],
      interned_strings |-> <<>>,
      hist             |-> <<>>,
      res              |-> "Ok" ]

\* io::Write::write_all on the sink, then `?`
write_all(o, data) ==
    IF o.res # "Ok" THEN o
    ELSE IF ~o.limited \/ Len(o.writer) + Len(data) <= o.limit
         THEN [o EXCEPT !.writer = @ \o data]
    ELSE [o EXCEPT !.writer = @ \o SubSeq(data, 1, o.limit - Len(@)),
                   !.res = "Io"]

write_byte(o, value) == write_all(o, BigEndian(value, 1))

write_short(o, value) == write_all(o, BigEndian(value, 2))

write_int(o, value) == write_all(o, BigEndian(value, 4))

write_long(o, value) == write_all(o, BigEndian(value, 8))

\* value: the 4 bytes of the f32
write_float(o, value) == write_all(o, value)

\* value: the 8 bytes of the f64
write_double(o, value) == write_all(o, value)

\* write_utf with the ceiling one byte lower (>= for >)
write_utf_ceiling_below(o, s) ==
    IF o.res # "Ok" THEN o
    ELSE IF Len(s) >= MAX_UNSIGNED_SHORT
         THEN [o EXCEPT !.res = "StringTooLong"]
    ELSE write_all(write_short(o, Len(s)), s)

write_utf(o, s) ==
    IF o.res # "Ok" THEN o
    ELSE IF Len(s) > MAX_UNSIGNED_SHORT
         THEN [o EXCEPT !.res = "StringTooLong"]
    ELSE write_all(write_short(o, Len(s)), s)

\* HashMap::insert: the entry of an equal key is replaced
PoolInsert(pool, s, index) == (s :> index) @@ pool

\* hist: the write_interned_utf calls made on this object, each with the
\* length of the output before it and after it and with what it returned
Logged(o, w, s) ==
    [w EXCEPT !.hist = Append(@, [at |-> Len(o.writer), s |-> s,
                                  end |-> Len(w.writer), res |-> w.res])]

InternNew(w, s) ==
    IF w.res # "Ok" THEN w
    ELSE [w EXCEPT
            !.string_pool = PoolInsert(@, s, Len(w.interned_strings) % 65536),
            !.interned_strings = Append(@, s)]

\* write_interned_utf without the pool lookup: every write is a literal
write_interned_utf_no_lookup(o, s) ==
    IF o.res # "Ok" THEN o
    ELSE Logged(o, InternNew(write_utf(write_short(o, 65535), s), s), s)

write_interned_utf(o, s) ==
    IF o.res # "Ok" THEN o
    ELSE IF s \in DOMAIN o.string_pool
         THEN Logged(o, write_short(o, o.string_pool[s]), s)
    ELSE Logged(o, InternNew(write_utf(write_short(o, 65535), s), s), s)

write_bytes(o, data) == write_all(o, data)

flush(o) ==
    IF o.res # "Ok" THEN o ELSE [o EXCEPT !.flushed = @ + 1]

\* a call made on the object from outside starts a new Result
Call(o) == [o EXCEPT !.res = "Ok"]

----------------------------------------------------------------------------
(* struct BinaryXmlSerializer<W: Write>                                    *)
(*                                                                         *)
(* tag_count is a usize.  `tag_count -= 1` at 0 panics in a build with     *)
(* overflow checks (debug) and wraps to usize::MAX in one without          *)
(* (release): the caller of end_tag draws which build runs.  The model     *)
(* writes a                                                                *)
(* usize word of the upper half as its two's-complement representative, so *)
(* -1 stands for usize::MAX; ==, += 1 and -= 1 are exact on it, and an     *)
(* index that is negative here is out of bounds there.  A panic is the     *)
(* result "Panic".                                                         *)

PROTOCOL_MAGIC_VERSION_0 == <<65, 66, 88, 0>>

START_DOCUMENT == 0

END_DOCUMENT == 1

START_TAG == 2

END_TAG == 3

TEXT == 4

CDSECT == 5

ENTITY_REF == 6

IGNORABLE_WHITESPACE == 7

PROCESSING_INSTRUCTION == 8

COMMENT == 9

DOCDECL == 10

ATTRIBUTE == 15

\* v << 3 for v << 4
Shl3(v) == (v * 8) % 256

\* v << 4 on a u8 constant
Shl4(v) == (v * 16) % 256

TYPE_NULL == Shl4(1)

TYPE_STRING == Shl4(2)

TYPE_STRING_INTERNED == Shl4(3)

TYPE_BYTES_HEX == Shl4(4)

TYPE_BYTES_BASE64 == Shl4(5)

TYPE_INT == Shl4(6)

TYPE_INT_HEX == Shl4(7)

TYPE_LONG == Shl4(8)

TYPE_LONG_HEX == Shl4(9)

TYPE_FLOAT == Shl4(10)

TYPE_DOUBLE == Shl4(11)

TYPE_BOOLEAN_TRUE == Shl4(12)

TYPE_BOOLEAN_FALSE == Shl4(13)

\* a | b on u8
BitOr(a, b) ==
    Max(Bit(a, 7), Bit(b, 7)) * 128 + Max(Bit(a, 6), Bit(b, 6)) * 64
    + Max(Bit(a, 5), Bit(b, 5)) * 32 + Max(Bit(a, 4), Bit(b, 4)) * 16
    + Max(Bit(a, 3), Bit(b, 3)) * 8 + Max(Bit(a, 2), Bit(b, 2)) * 4
    + Max(Bit(a, 1), Bit(b, 1)) * 2 + Max(Bit(a, 0), Bit(b, 0))

\* Option<&str>
Some(s) == [some |-> TRUE, s |-> s]

None == [some |-> FALSE, s |-> <<>>]

\* the serializer z with its writer replaced by o
WithOutput(z, o) == [z EXCEPT !.output = o]

Failed(z) == z.output.res # "Ok"

Panic(z) == [z EXCEPT !.output.res = "Panic"]

with_options(sink, preserve_whitespace) ==
    [ output              |-> write_bytes(FastDataOutput_new(sink),
                                          PROTOCOL_MAGIC_VERSION_0),
      tag_count           |-> 0,
      tag_names           |-> <<>>,
      preserve_whitespace |-> preserve_whitespace ]

new(sink) == with_options(sink, TRUE)

write_token(z, token, text) ==
    IF text.some
    THEN WithOutput(z, write_utf(write_byte(z.output, BitOr(token, TYPE_STRING)),
                                 text.s))
    ELSE WithOutput(z, write_byte(z.output, BitOr(token, TYPE_NULL)))

start_document(z) ==
    WithOutput(z, write_byte(z.output, BitOr(START_DOCUMENT, TYPE_NULL)))

\* end_document without the flush
end_document_unflushed(z) ==
    WithOutput(z, write_byte(z.output, BitOr(END_DOCUMENT, TYPE_NULL)))

end_document(z) ==
    WithOutput(z, flush(write_byte(z.output, BitOr(END_DOCUMENT, TYPE_NULL))))

\* Vec::resize(new_size, String::new())
Resize(v, new_size) ==
    [i \in 1..new_size |-> IF i <= Len(v) THEN v[i] ELSE <<>>]

start_tag(z, name) ==
    LET grown == IF z.tag_count = Len(z.tag_names)
                 THEN Resize(z.tag_names,
                             z.tag_count + Max(1, z.tag_count \div 2))
                 ELSE z.tag_names
    IN  IF z.tag_count < 0 \/ z.tag_count >= Len(grown)
        THEN Panic([z EXCEPT !.tag_names = grown])
        ELSE
          LET y == [z EXCEPT !.tag_names = [grown EXCEPT ![z.tag_count + 1] = name],
                             !.tag_count = @ + 1]
          IN  WithOutput(y, write_interned_utf(
                  write_byte(y.output, BitOr(START_TAG, TYPE_STRING_INTERNED)),
                  name))

\* end_tag that writes the name as a plain string
end_tag_plain_name(z, name, overflow_checks) ==
    IF z.tag_count = 0 /\ overflow_checks
    THEN Panic(z)
    ELSE WithOutput([z EXCEPT !.tag_count = @ - 1],
                    write_utf(write_byte(z.output,
                                         BitOr(END_TAG, TYPE_STRING)), name))

\* overflow_checks: whether the build that runs checks integer overflow
end_tag(z, name, overflow_checks) ==
    IF z.tag_count = 0 /\ overflow_checks
    THEN Panic(z)
    ELSE
      LET y == [z EXCEPT !.tag_count = @ - 1]
      IN  WithOutput(y, write_interned_utf(
              write_byte(y.output, BitOr(END_TAG, TYPE_STRING_INTERNED)),
              name))

attribute(z, name, value) ==
    WithOutput(z, write_utf(write_interned_utf(
        write_byte(z.output, BitOr(ATTRIBUTE, TYPE_STRING)), name), value))

attribute_interned(z, name, value) ==
    WithOutput(z, write_interned_utf(write_interned_utf(
        write_byte(z.output, BitOr(ATTRIBUTE, TYPE_STRING_INTERNED)), name),
        value))

attribute_bytes_hex(z, name, value) ==
    IF Len(value) > MAX_UNSIGNED_SHORT
    THEN [z EXCEPT !.output.res = "BinaryDataTooLong"]
    ELSE WithOutput(z, write_bytes(write_short(write_interned_utf(
        write_byte(z.output, BitOr(ATTRIBUTE, TYPE_BYTES_HEX)), name),
        Len(value)), value))

attribute_bytes_base64(z, name, value) ==
    IF Len(value) > MAX_UNSIGNED_SHORT
    THEN [z EXCEPT !.output.res = "BinaryDataTooLong"]
    ELSE WithOutput(z, write_bytes(write_short(write_interned_utf(
        write_byte(z.output, BitOr(ATTRIBUTE, TYPE_BYTES_BASE64)), name),
        Len(value)), value))

attribute_int(z, name, value) ==
    WithOutput(z, write_int(write_interned_utf(
        write_byte(z.output, BitOr(ATTRIBUTE, TYPE_INT)), name), value))

attribute_int_hex(z, name, value) ==
    WithOutput(z, write_int(write_interned_utf(
        write_byte(z.output, BitOr(ATTRIBUTE, TYPE_INT_HEX)), name), value))

attribute_long(z, name, value) ==
    WithOutput(z, write_long(write_interned_utf(
        write_byte(z.output, BitOr(ATTRIBUTE, TYPE_LONG)), name), value))

attribute_long_hex(z, name, value) ==
    WithOutput(z, write_long(write_interned_utf(
        write_byte(z.output, BitOr(ATTRIBUTE, TYPE_LONG_HEX)), name), value))

attribute_float(z, name, value) ==
    WithOutput(z, write_float(write_interned_utf(
        write_byte(z.output, BitOr(ATTRIBUTE, TYPE_FLOAT)), name), value))

attribute_double(z, name, value) ==
    WithOutput(z, write_double(write_interned_utf(
        write_byte(z.output, BitOr(ATTRIBUTE, TYPE_DOUBLE)), name), value))

attribute_boolean(z, name, value) ==
    LET token == IF value THEN BitOr(ATTRIBUTE, TYPE_BOOLEAN_TRUE)
                 ELSE BitOr(ATTRIBUTE, TYPE_BOOLEAN_FALSE)
    IN  WithOutput(z, write_interned_utf(write_byte(z.output, token), name))

text(z, s) == write_token(z, TEXT, Some(s))

cdsect(z, s) == write_token(z, CDSECT, Some(s))

comment(z, s) == write_token(z, COMMENT, Some(s))

\* data: Option<&str>
processing_instruction(z, target, data) ==
    LET full_pi == IF data.some /\ Len(data.s) > 0
                   THEN target \o <<32>> \o data.s
                   ELSE target
    IN  write_token(z, PROCESSING_INSTRUCTION, Some(full_pi))

docdecl(z, s) == write_token(z, DOCDECL, Some(s))

ignorable_whitespace(z, s) == write_token(z, IGNORABLE_WHITESPACE, Some(s))

entity_ref(z, s) == write_token(z, ENTITY_REF, Some(s))

\* a call made on the serializer from outside starts a new Result
CallSer(z) == [z EXCEPT !.output.res = "Ok"]

----------------------------------------------------------------------------
(* struct XmlToAbxConverter                                                *)

\* write_attribute that interns a value of 50 bytes too (<= for <)
write_attribute_ceiling_above(z, name, value) ==
    IF is_boolean(value)
    THEN attribute_boolean(z, name, value = S_true)
    ELSE IF is_scientific_notation(value)
    THEN IF parse_f64(value).ok
         THEN attribute_double(z, name, parse_f64(value).value)
         ELSE attribute(z, name, value)
    ELSE IF Len(value) <= 50 /\ ~ContainsChar(value, 32)
    THEN attribute_interned(z, name, value)
    ELSE attribute(z, name, value)

write_attribute(z, name, value) ==
    IF is_boolean(value)
    THEN attribute_boolean(z, name, value = S_true)
    ELSE IF is_scientific_notation(value)
    THEN LET parsed == parse_f64(value)
         IN  IF parsed.ok THEN attribute_double(z, name, parsed.value)
             ELSE attribute(z, name, value)
    ELSE IF Len(value) < 50 /\ ~ContainsChar(value, 32)
    THEN attribute_interned(z, name, value)
    ELSE attribute(z, name, value)

\* str::contains(&str)
ContainsStr(s, sub) ==
    \E i \in 1..(Len(s) - Len(sub) + 1) : SubSeq(s, i, i + Len(sub) - 1) = sub

\* str::starts_with(&str)
StartsWith(s, sub) == Len(s) >= Len(sub) /\ SubSeq(s, 1, Len(sub)) = sub

\* str::to_lowercase (the model draws ASCII where it is used)
ToLowercase(s) == [i \in 1..Len(s) |-> Lower(s[i])]

S_xmlns == <<120, 109, 108, 110, 115>>

S_xml == <<120, 109, 108>>

S_encoding == <<101, 110, 99, 111, 100, 105, 110, 103>>

S_utf8 == <<117, 116, 102, 45, 56>>

\* The state of one pass of the event loop: the serializer z, the warnings
\* shown w, the local tag_stack, and the Result of the pass so far (an error
\* of the serializer is in z.output.res as well).
Pass(z, w, stack) == [z |-> CallSer(z), w |-> w, stack |-> stack, res |-> "Ok"]

\* `?` on an Err that does not come from the serializer
Err(acc, e) == [acc EXCEPT !.res = e]

\* show_warning
Warn(acc, cond) == IF cond THEN [acc EXCEPT !.w = @ + 1] ELSE acc

\* after a serializer call: its Result is the pass's Result
Tried(acc, z) == [acc EXCEPT !.z = z, !.res = z.output.res]

\* the `for attr in e.attributes()` loop of Event::Start and Event::Empty,
\* one attribute: attr? / from_utf8(key)? / from_utf8(value)? / warning /
\* write_attribute?
OneAttribute(acc, attr) ==
    IF acc.res # "Ok" THEN acc
    ELSE IF attr.err THEN Err(acc, "AttrError")
    ELSE IF ~from_utf8_ok(attr.key) \/ ~from_utf8_ok(attr.value)
         THEN Err(acc, "Utf8Error")
    ELSE LET warned == Warn(acc, StartsWith(attr.key, S_xmlns)
                                 \/ ContainsChar(attr.key, 58))
         IN  Tried(warned, write_attribute(warned.z, attr.key, attr.value))

RECURSIVE Attributes(_, _, _)
\* the attributes attrs[i..] in document order
Attributes(acc, attrs, i) ==
    IF i > Len(attrs) THEN acc
    ELSE Attributes(OneAttribute(acc, attrs[i]), attrs, i + 1)

OnStart(acc, e) ==
    IF ~from_utf8_ok(e.name) THEN Err(acc, "Utf8Error")
    ELSE
      LET warned == Warn(acc, ContainsChar(e.name, 58))
          started == Tried(warned, start_tag(warned.z, e.name))
      IN  IF started.res # "Ok" THEN started
          ELSE Attributes([started EXCEPT !.stack = Append(@, e.name)],
                          e.attrs, 1)

\* Vec::pop: None on an empty stack
Pop(stack) == IF Len(stack) = 0 THEN stack ELSE SubSeq(stack, 1, Len(stack) - 1)

OnEnd(acc, e, overflow_checks) ==
    IF ~from_utf8_ok(e.name) THEN Err(acc, "Utf8Error")
    ELSE
      LET ended == Tried(acc, end_tag(acc.z, e.name, overflow_checks))
      IN  IF ended.res # "Ok" THEN ended
          ELSE [ended EXCEPT !.stack = Pop(@)]

\* Event::Empty handled as Event::Start is: no end_tag, the name stacked
OnEmpty_unclosed(acc, e, overflow_checks) == OnStart(acc, e)

OnEmpty(acc, e, overflow_checks) ==
    IF ~from_utf8_ok(e.name) THEN Err(acc, "Utf8Error")
    ELSE
      LET warned == Warn(acc, ContainsChar(e.name, 58))
          started == Tried(warned, start_tag(warned.z, e.name))
          done == Attributes(started, e.attrs, 1)
      IN  IF done.res # "Ok" THEN done
          ELSE Tried(done, end_tag(done.z, e.name, overflow_checks))

\* Event::Text that keeps whitespace whatever preserve_whitespace is
OnText_keep_whitespace(acc, e) ==
    IF ~from_utf8_ok(e.text) THEN Err(acc, "Utf8Error")
    ELSE IF is_whitespace_only(e.text)
         THEN Tried(acc, ignorable_whitespace(acc.z, e.text))
    ELSE Tried(acc, text(acc.z, e.text))

OnText(acc, e) ==
    IF ~from_utf8_ok(e.text) THEN Err(acc, "Utf8Error")
    ELSE IF is_whitespace_only(e.text)
         THEN IF acc.z.preserve_whitespace
              THEN Tried(acc, ignorable_whitespace(acc.z, e.text))
              ELSE acc
    ELSE Tried(acc, text(acc.z, e.text))

OnCData(acc, e) ==
    IF ~from_utf8_ok(e.text) THEN Err(acc, "Utf8Error")
    ELSE Tried(acc, cdsect(acc.z, e.text))

OnComment(acc, e) ==
    IF ~from_utf8_ok(e.text) THEN Err(acc, "Utf8Error")
    ELSE Tried(acc, comment(acc.z, e.text))

OnPI(acc, e) ==
    IF ~from_utf8_ok(e.target) THEN Err(acc, "Utf8Error")
    ELSE IF Len(e.content) > 0 /\ ~from_utf8_ok(e.content)
         THEN Err(acc, "Utf8Error")
    ELSE
      LET data == IF Len(e.content) = 0 THEN None ELSE Some(e.content)
          warned == Warn(acc, /\ e.target = S_xml
                              /\ data.some
                              /\ ContainsStr(data.s, S_encoding)
                              /\ ~ContainsStr(ToLowercase(data.s), S_utf8))
      IN  Tried(warned, processing_instruction(warned.z, e.target, data))

\* e.encoding: Option<Result<bytes>>, as [some, err, s]
OnDecl(acc, e) ==
    IF ~e.encoding.some THEN acc
    ELSE IF e.encoding.err THEN Err(acc, "AttrError")
    ELSE IF ~from_utf8_ok(e.encoding.s) THEN Err(acc, "Utf8Error")
    ELSE Warn(acc, ~ContainsStr(ToLowercase(e.encoding.s), S_utf8))

OnDocType(acc, e) ==
    IF ~from_utf8_ok(e.text) THEN Err(acc, "Utf8Error")
    ELSE Tried(acc, docdecl(acc.z, e.text))

OnGeneralRef(acc, e) ==
    IF ~from_utf8_ok(e.text) THEN Err(acc, "Utf8Error")
    ELSE Tried(acc, entity_ref(acc.z, e.text))

----------------------------------------------------------------------------
(* SpecWriter: a FastDataOutput used on its own.  The strings drawn are a   *)
(* few short ones and the ones around the 65535-byte ceiling.               *)

S_empty == <<>>

S_k == <<107>>

S_v == <<118>>

\* "p:b", a prefixed name
S_p_b == <<112, 58, 98>>

\* "x:k", a prefixed attribute name
S_x_k == <<120, 58, 107>>

\* "1e2"
S_1e2 == <<49, 101, 50>>

\* " \n"
T_space == <<32, 10>>

\* U+00A0: whitespace for char::is_whitespace, not for the reader's trim
T_nbsp == <<194, 160>>

T_t == <<116>>

\* not UTF-8
T_bad == <<255>>

S_a == <<97>>

\* "é": one character, two bytes
S_eacute == <<195, 169>>

\* 32768 times "é": 65536 bytes in 32768 characters
S_long_eacute ==
    [i \in 1..(MAX_UNSIGNED_SHORT + 1) |-> IF i % 2 = 1 THEN 195 ELSE 169]
    \o <<>>

\* the strings SpecWriter draws; a call is logged with the place of its
\* string in this list
WriterStrings ==
    <<S_empty, S_a, S_eacute, S_long_eacute,
      Rep(97, MAX_UNSIGNED_SHORT), Rep(97, MAX_UNSIGNED_SHORT + 1)>>

\* the sinks SpecWriter draws: unbounded, or full after 1 byte / 3 bytes
WriterSinks == {Unbounded, Bounded(1), Bounded(3)}

\* the serializer the specifications of a bare writer leave untouched
NoSerializer == [unused |-> TRUE]

InitWriter ==
    /\ pc = "writer"
    /\ \E sink \in WriterSinks : fdo = FastDataOutput_new(sink)
    /\ ser = NoSerializer
    /\ tag_stack = <<>>
    /\ warnings = 0
    /\ result = "Pending"
    /\ calls = <<>>
    /\ prev = NoSerializer

\* calls: each call with its argument (string n of WriterStrings), the
\* length of the output before and after it, and what it returned
WriterStep(op, n, w) ==
    /\ pc = "writer"
    /\ Len(calls) < MaxWrites
    /\ fdo' = w
    /\ calls' = Append(calls, [op |-> op, arg |-> n, at |-> Len(fdo.writer),
                               end |-> Len(w.writer), res |-> w.res])
    /\ UNCHANGED <<pc, ser, tag_stack, warnings, result, prev>>

WriteUtf(n) ==
    WriterStep("write_utf", n, write_utf(Call(fdo), WriterStrings[n]))

WriteInternedUtf(n) ==
    WriterStep("write_interned_utf", n,
               write_interned_utf(Call(fdo), WriterStrings[n]))

NextWriter ==
    \/ \E n \in DOMAIN WriterStrings : WriteUtf(n)
    \/ \E n \in DOMAIN WriterStrings : WriteInternedUtf(n)

SpecWriter == InitWriter /\ [][NextWriter]_vars

\* what call c put into the output
Written(c) == SubSeq(fdo.writer, c.at + 1, c.end)

Arg(c) == WriterStrings[c.arg]

WriteUtfCalls == {i \in DOMAIN calls : calls[i].op = "write_utf"}

\* C2: write_utf fails with StringTooLong exactly when the string has more
\* than 65535 bytes, and then it writes nothing, neither the length nor a
\* byte of the string; a string of at most 65535 bytes that the sink takes
\* is written as its byte count in two bytes, big-endian, and its bytes,
\* and on a sink that takes everything the call succeeds.
C2_WriteUtfCeiling ==
    pc = "writer" =>
        \A i \in WriteUtfCalls :
            /\ (calls[i].res = "StringTooLong")
                   <=> (Len(Arg(calls[i])) > 65535)
            /\ calls[i].res = "StringTooLong" => calls[i].end = calls[i].at
            /\ calls[i].res = "Ok" =>
                   Written(calls[i])
                       = BigEndian(Len(Arg(calls[i])), 2) \o Arg(calls[i])
            /\ (~fdo.limited /\ Len(Arg(calls[i])) <= 65535)
                   => calls[i].res = "Ok"

\* a string of exactly 65535 bytes has been written, length and bytes, and
\* one of 65536 bytes has been refused
C2_Witness ==
    /\ pc = "writer"
    /\ \E i \in WriteUtfCalls :
           /\ Len(Arg(calls[i])) = 65535
           /\ calls[i].res = "Ok"
           /\ calls[i].end = calls[i].at + 65537
    /\ \E i \in WriteUtfCalls :
           /\ Len(Arg(calls[i])) = 65536
           /\ calls[i].res = "StringTooLong"

----------------------------------------------------------------------------
(* SpecEmitter: a BinaryXmlSerializer driven through its public calls, in  *)
(* any order and with any arguments, as a caller of the library may.  A    *)
(* call that returns an error leaves the object usable; a panic ends its   *)
(* use.                                                                    *)

EmitterSinks == {Unbounded, Bounded(6)}

EmitterNames == {S_a, S_k}

EmitterValues == {S_a, S_v}

\* one byte more than attribute_bytes_hex takes
B_long == Rep(0, MAX_UNSIGNED_SHORT + 1)

EmitterBytes == {<<1, 2>>, B_long}

\* 1.0f32
F32_one == <<63, 128, 0, 0>>

InitEmitter ==
    /\ pc = "emitter"
    /\ \E sink \in EmitterSinks : ser = new(sink)
    /\ fdo = NoSerializer
    /\ tag_stack = <<>>
    /\ warnings = 0
    /\ result = "Pending"
    /\ calls = <<>>
    /\ prev = NoSerializer

\* calls: each call with the length of the output before and after it and
\* what it returned; flag is the value of attribute_boolean
EmitterStep(op, flag, z) ==
    /\ pc = "emitter"
    /\ Len(calls) < MaxCalls
    /\ ser' = z
    /\ pc' = IF z.output.res = "Panic" THEN "panicked" ELSE "emitter"
    /\ result' = z.output.res
    /\ calls' = Append(calls, [op |-> op, flag |-> flag,
                               at |-> Len(ser.output.writer),
                               end |-> Len(z.output.writer),
                               res |-> z.output.res])
    /\ UNCHANGED <<fdo, tag_stack, warnings, prev>>

StartDocument ==
    EmitterStep("start_document", FALSE, start_document(CallSer(ser)))

EndDocument ==
    EmitterStep("end_document", FALSE, end_document(CallSer(ser)))

StartTag(name) ==
    EmitterStep("start_tag", FALSE, start_tag(CallSer(ser), name))

EndTag(name) ==
    \E overflow_checks \in BOOLEAN :
        EmitterStep("end_tag", FALSE,
                    end_tag(CallSer(ser), name, overflow_checks))

Attribute(name, value) ==
    EmitterStep("attribute", FALSE, attribute(CallSer(ser), name, value))

AttributeInterned(name, value) ==
    EmitterStep("attribute_interned", FALSE,
                attribute_interned(CallSer(ser), name, value))

AttributeBytesHex(name, value) ==
    EmitterStep("attribute_bytes_hex", FALSE,
                attribute_bytes_hex(CallSer(ser), name, value))

AttributeBytesBase64(name, value) ==
    EmitterStep("attribute_bytes_base64", FALSE,
                attribute_bytes_base64(CallSer(ser), name, value))

AttributeInt(name, value) ==
    EmitterStep("attribute_int", FALSE,
                attribute_int(CallSer(ser), name, value))

AttributeIntHex(name, value) ==
    EmitterStep("attribute_int_hex", FALSE,
                attribute_int_hex(CallSer(ser), name, value))

AttributeLong(name, value) ==
    EmitterStep("attribute_long", FALSE,
                attribute_long(CallSer(ser), name, value))

AttributeLongHex(name, value) ==
    EmitterStep("attribute_long_hex", FALSE,
                attribute_long_hex(CallSer(ser), name, value))

AttributeFloat(name, value) ==
    EmitterStep("attribute_float", FALSE,
                attribute_float(CallSer(ser), name, value))

AttributeDouble(name, value) ==
    EmitterStep("attribute_double", FALSE,
                attribute_double(CallSer(ser), name, value))

AttributeBoolean(name, value) ==
    EmitterStep("attribute_boolean", value,
                attribute_boolean(CallSer(ser), name, value))

Text(s) == EmitterStep("text", FALSE, text(CallSer(ser), s))

Cdsect(s) == EmitterStep("cdsect", FALSE, cdsect(CallSer(ser), s))

Comment(s) == EmitterStep("comment", FALSE, comment(CallSer(ser), s))

ProcessingInstruction(target, data) ==
    EmitterStep("processing_instruction", FALSE,
                processing_instruction(CallSer(ser), target, data))

Docdecl(s) == EmitterStep("docdecl", FALSE, docdecl(CallSer(ser), s))

IgnorableWhitespace(s) ==
    EmitterStep("ignorable_whitespace", FALSE,
                ignorable_whitespace(CallSer(ser), s))

EntityRef(s) == EmitterStep("entity_ref", FALSE, entity_ref(CallSer(ser), s))

NextEmitter ==
    \/ StartDocument
    \/ EndDocument
    \/ \E name \in EmitterNames : StartTag(name)
    \/ \E name \in EmitterNames : EndTag(name)
    \/ \E name \in EmitterNames : Attribute(name, S_v)
    \/ \E name \in EmitterNames, value \in EmitterValues :
           AttributeInterned(name, value)
    \/ \E value \in EmitterBytes : AttributeBytesHex(S_k, value)
    \/ \E value \in EmitterBytes : AttributeBytesBase64(S_k, value)
    \/ \E value \in {258} : AttributeInt(S_k, value)
    \/ \E value \in {-1} : AttributeIntHex(S_k, value)
    \/ \E value \in {-2} : AttributeLong(S_k, value)
    \/ \E value \in {255} : AttributeLongHex(S_k, value)
    \/ \E value \in {F32_one} : AttributeFloat(S_k, value)
    \/ \E value \in {F64OfInt(FALSE, 100)} : AttributeDouble(S_k, value)
    \/ \E value \in BOOLEAN : AttributeBoolean(S_k, value)
    \/ \E s \in {S_v} : Text(s)
    \/ \E s \in {S_v} : Cdsect(s)
    \/ \E s \in {S_v} : Comment(s)
    \/ \E data \in {None, Some(S_empty), Some(S_v)} :
           ProcessingInstruction(S_a, data)
    \/ \E s \in {S_v} : Docdecl(s)
    \/ \E s \in {T_space} : IgnorableWhitespace(s)
    \/ \E s \in {S_a} : EntityRef(s)

SpecEmitter == InitEmitter /\ [][NextEmitter]_vars

\* the write_interned_utf calls of the encoder that returned Ok
InternedOk ==
    {i \in DOMAIN ser.output.hist : ser.output.hist[i].res = "Ok"}

InternedString(i) == ser.output.hist[i].s

\* what write i put into the output
InternedOut(i) ==
    SubSeq(ser.output.writer, ser.output.hist[i].at + 1,
           ser.output.hist[i].end)

\* write i is the first one of its string
IsFirst(i) ==
    \A j \in InternedOk : j < i => InternedString(j) # InternedString(i)

FirstOf(i) ==
    CHOOSE j \in InternedOk :
        InternedString(j) = InternedString(i) /\ IsFirst(j)

\* the strings written before the first write of the string of write i
Earlier(i) == {InternedString(j) : j \in {k \in InternedOk : k < FirstOf(i)}}

\* short 65535, then the length-prefixed bytes of s
Literal(s) == <<255, 255>> \o BigEndian(Len(s), 2) \o s

\* C1: on one encoder, whatever calls made them, the first
\* write_interned_utf of a string puts the literal into the output (short
\* 65535, the byte count in two bytes, the bytes) and every later one of
\* the same string puts exactly two bytes, the index the string got at its
\* first write (the number of distinct strings written before it); so a
\* string written k times is there as one literal and k-1 references.
C1_OneLiteralThenReferences ==
    pc \in {"emitter", "panicked"} =>
        \A i \in InternedOk :
            IF IsFirst(i)
            THEN InternedOut(i) = Literal(InternedString(i))
            ELSE InternedOut(i) = BigEndian(Cardinality(Earlier(i)), 2)

\* a string written a second time, as a reference to index 1: another
\* string was written before its first write
C1_Witness ==
    /\ pc = "emitter"
    /\ \E i \in InternedOk :
           /\ ~IsFirst(i)
           /\ Cardinality(Earlier(i)) = 1
           /\ InternedOut(i) = <<0, 1>>

\* event codes (low nibble) of the calls
EventCodeOf(op) ==
    CASE op = "start_document" -> 0
      [] op = "end_document" -> 1
      [] op = "start_tag" -> 2
      [] op = "end_tag" -> 3
      [] op = "text" -> 4
      [] op = "cdsect" -> 5
      [] op = "entity_ref" -> 6
      [] op = "ignorable_whitespace" -> 7
      [] op = "processing_instruction" -> 8
      [] op = "comment" -> 9
      [] op = "docdecl" -> 10
      [] OTHER -> 15

\* value-type codes (high nibble) of the payload of the calls
TypeCodeOf(c) ==
    CASE c.op \in {"start_document", "end_document"} -> 1
      [] c.op \in {"start_tag", "end_tag", "attribute_interned"} -> 3
      [] c.op = "attribute_bytes_hex" -> 4
      [] c.op = "attribute_bytes_base64" -> 5
      [] c.op = "attribute_int" -> 6
      [] c.op = "attribute_int_hex" -> 7
      [] c.op = "attribute_long" -> 8
      [] c.op = "attribute_long_hex" -> 9
      [] c.op = "attribute_float" -> 10
      [] c.op = "attribute_double" -> 11
      [] c.op = "attribute_boolean" -> IF c.flag THEN 12 ELSE 13
      [] OTHER -> 2

\* the first byte call c put into the output
ControlByte(c) == ser.output.writer[c.at + 1]

\* C10: every emitter call that returns Ok has written at least one byte,
\* and the first byte a call writes is its control byte: the low nibble is
\* the event code of the call (0..10, 15 for the attribute calls), the high
\* nibble the value-type code of its payload (1..13), so that the byte is
\* code + 16 * type and both are read back from it; a call whose
\* value-type is null writes nothing after the control byte.
C10_ControlByte ==
    pc \in {"emitter", "panicked"} =>
        \A i \in DOMAIN calls :
            /\ calls[i].res = "Ok" => calls[i].end > calls[i].at
            /\ calls[i].end > calls[i].at =>
                   /\ ControlByte(calls[i]) % 16 = EventCodeOf(calls[i].op)
                   /\ ControlByte(calls[i]) \div 16 = TypeCodeOf(calls[i])
                   /\ EventCodeOf(calls[i].op) \in (0..10) \cup {15}
                   /\ TypeCodeOf(calls[i]) \in 1..13
            /\ (calls[i].res = "Ok" /\ TypeCodeOf(calls[i]) = 1) =>
                   calls[i].end = calls[i].at + 1

\* an attribute_boolean(false) call and a text call have both written
\* their tokens: control bytes 0xDF and 0x24
C10_Witness ==
    /\ pc = "emitter"
    /\ \E i \in DOMAIN calls :
           /\ calls[i].op = "attribute_boolean"
           /\ calls[i].res = "Ok"
           /\ ControlByte(calls[i]) = 223
    /\ \E i \in DOMAIN calls :
           /\ calls[i].op = "text"
           /\ calls[i].res = "Ok"
           /\ ControlByte(calls[i]) = 36

----------------------------------------------------------------------------
(* SpecAttr: write_attribute, called as the event loop calls it, on the    *)
(* serializer of a conversion that has written the start of the document   *)
(* and the start tag of an element.  An error ends the conversion.         *)

V_True == <<84, 114, 117, 101>>

\* "1E2"
V_1E2 == <<49, 69, 50>>

\* "10e"
V_10e == <<49, 48, 101>>

\* "e e"
V_e_e == <<101, 32, 101>>

\* "x x"
V_x_x == <<120, 32, 120>>

\* 49 and 50 times "x"
V_x49 == Rep(120, 49)

V_x50 == Rep(120, 50)

\* 25 times "é": 25 characters, 50 bytes
V_eacute25 == [i \in 1..50 |-> IF i % 2 = 1 THEN 195 ELSE 169] \o <<>>

AttrValues ==
    {S_true, S_false, V_True, S_1e2, V_1E2, V_10e, V_e_e, V_x_x, V_x49,
     V_x50, V_eacute25, S_empty, S_v}

AttrNames == {S_k, S_a}

\* unbounded, or full in the middle of the first attribute
AttrSinks == {Unbounded, Bounded(14)}

InitAttr ==
    /\ pc = "attr"
    /\ \E sink \in AttrSinks :
           ser = start_tag(start_document(with_options(sink, FALSE)), S_a)
    /\ fdo = NoSerializer
    /\ tag_stack = <<S_a>>
    /\ warnings = 0
    /\ result = "Pending"
    /\ calls = <<>>
    /\ prev = NoSerializer

\* calls: each call with its arguments, the length of the output before
\* and after it, and what it returned
AttrStep(name, value, z) ==
    /\ pc = "attr"
    /\ Len(calls) < MaxAttrCalls
    /\ ser' = z
    /\ pc' = IF Failed(z) THEN "failed" ELSE "attr"
    /\ result' = IF Failed(z) THEN z.output.res ELSE "Pending"
    /\ calls' = Append(calls, [name |-> name, value |-> value,
                               at |-> Len(ser.output.writer),
                               end |-> Len(z.output.writer),
                               res |-> z.output.res])
    /\ UNCHANGED <<fdo, tag_stack, warnings, prev>>

WriteAttribute(name, value) ==
    AttrStep(name, value, write_attribute(CallSer(ser), name, value))

NextAttr ==
    \E name \in AttrNames, value \in AttrValues : WriteAttribute(name, value)

SpecAttr == InitAttr /\ [][NextAttr]_vars

\* the write_attribute calls that returned Ok
AttrOk == {i \in DOMAIN calls : calls[i].res = "Ok"}

\* the write_interned_utf call that wrote the name of the token of call c,
\* right after the control byte
NameWrite(c) ==
    CHOOSE i \in DOMAIN ser.output.hist : ser.output.hist[i].at = c.at + 1

\* the token of call c starts with control byte ctl and the interned name
TokenStart(c, ctl) ==
    /\ c.end > c.at
    /\ ser.output.writer[c.at + 1] = ctl
    /\ \E i \in DOMAIN ser.output.hist : ser.output.hist[i].at = c.at + 1
    /\ ser.output.hist[NameWrite(c)].s = c.name
    /\ ser.output.hist[NameWrite(c)].end <= c.end

\* the bytes of the token of call c after the interned name
ValueBytes(c) ==
    SubSeq(ser.output.writer, ser.output.hist[NameWrite(c)].end + 1, c.end)

\* the value of call c went through write_interned_utf, and that wrote all
\* the bytes after the name
ValueInterned(c) ==
    \E i \in DOMAIN ser.output.hist :
        /\ ser.output.hist[i].at = ser.output.hist[NameWrite(c)].end
        /\ ser.output.hist[i].end = c.end
        /\ ser.output.hist[i].s = c.value
        /\ i = NameWrite(c) + 1

\* no write_interned_utf call wrote any of the bytes after the name
ValuePlain(c) ==
    \A i \in DOMAIN ser.output.hist :
        (ser.output.hist[i].at >= c.at /\ ser.output.hist[i].at < c.end)
            => i = NameWrite(c)

BooleanToken(c, ctl) == TokenStart(c, ctl) /\ ValueBytes(c) = <<>>

DoubleToken(c) ==
    /\ TokenStart(c, 191)
    /\ ValueBytes(c) = parse_f64(c.value).value
    /\ Len(ValueBytes(c)) = 8
    /\ ValuePlain(c)

InternedStringToken(c) == TokenStart(c, 63) /\ ValueInterned(c)

PlainStringToken(c) ==
    /\ TokenStart(c, 47)
    /\ ValueBytes(c) = BigEndian(Len(c.value), 2) \o c.value
    /\ ValuePlain(c)

HasE(v) == \E i \in 1..Len(v) : v[i] = 101 \/ v[i] = 69

HasSpace(v) == \E i \in 1..Len(v) : v[i] = 32

IsTrueFalse(v) == v = <<116, 114, 117, 101>> \/ v = <<102, 97, 108, 115, 101>>

\* rule 3: interned if shorter than 50 bytes and without a space, else plain
Rule3Token(c) ==
    IF Len(c.value) < 50 /\ ~HasSpace(c.value)
    THEN InternedStringToken(c)
    ELSE PlainStringToken(c)

SciCalls == {i \in AttrOk : HasE(calls[i].value) /\ ~IsTrueFalse(calls[i].value)}

\* C3, as the specification states it: a value with an e or E in it (and
\* not "true"/"false") is emitted as a double token if the whole value
\* parses as an f64, and by rule 3 if it does not.
C3_AsStated ==
    pc \in {"attr", "failed"} =>
        \A i \in SciCalls :
            IF parse_f64(calls[i].value).ok
            THEN DoubleToken(calls[i])
            ELSE Rule3Token(calls[i])

\* C3, as the code has it: a value with an e or E in it (and not
\* "true"/"false") is emitted as a double token if the whole value parses
\* as an f64, and as a plain string, never an interned one, if it does not,
\* whatever its length and with or without a space.
C3_SciNotation ==
    pc \in {"attr", "failed"} =>
        \A i \in SciCalls :
            IF parse_f64(calls[i].value).ok
            THEN DoubleToken(calls[i])
            ELSE PlainStringToken(calls[i])

\* "1E2" has gone out as the double 100.0 and "10e", which does not parse,
\* is short and has no space, as a plain string
C3_Witness ==
    /\ pc = "attr"
    /\ \E i \in SciCalls :
           /\ calls[i].value = <<49, 69, 50>>
           /\ DoubleToken(calls[i])
           /\ ValueBytes(calls[i]) = <<64, 89, 0, 0, 0, 0, 0, 0>>
    /\ \E i \in SciCalls :
           /\ calls[i].value = <<49, 48, 101>>
           /\ PlainStringToken(calls[i])
           /\ ~InternedStringToken(calls[i])

\* C4: a boolean token is emitted exactly for the values "true" (control
\* byte 0xCF) and "false" (0xDF), whatever else the value would match; the
\* token is the control byte and the interned name, with no byte after it;
\* no other value, "True" included, gives a boolean control byte.
C4_Boolean ==
    pc \in {"attr", "failed"} =>
        \A i \in AttrOk :
            /\ calls[i].value = <<116, 114, 117, 101>>
                   => BooleanToken(calls[i], 207)
            /\ calls[i].value = <<102, 97, 108, 115, 101>>
                   => BooleanToken(calls[i], 223)
            /\ ~IsTrueFalse(calls[i].value) =>
                   /\ calls[i].end > calls[i].at
                   /\ ser.output.writer[calls[i].at + 1] \div 16
                          \notin {12, 13}

\* "false" (which has an e in it) has gone out as boolean-false and "True"
\* as something else
C4_Witness ==
    /\ pc = "attr"
    /\ \E i \in AttrOk :
           /\ calls[i].value = <<102, 97, 108, 115, 101>>
           /\ BooleanToken(calls[i], 223)
    /\ \E i \in AttrOk :
           /\ calls[i].value = <<84, 114, 117, 101>>
           /\ ser.output.writer[calls[i].at + 1] = 47

PlainCalls ==
    {i \in AttrOk : ~HasE(calls[i].value) /\ ~IsTrueFalse(calls[i].value)}

\* C5: a value that is not "true"/"false" and has no e or E in it is
\* emitted as an interned-string attribute if it has fewer than 50 bytes
\* and no space, and as a plain string attribute otherwise.
C5_InternShortValues ==
    pc \in {"attr", "failed"} =>
        \A i \in PlainCalls :
            /\ (Len(calls[i].value) < 50 /\ ~HasSpace(calls[i].value))
                   <=> InternedStringToken(calls[i])
            /\ ~(Len(calls[i].value) < 50 /\ ~HasSpace(calls[i].value))
                   <=> PlainStringToken(calls[i])

\* 49 bytes have gone out interned and 50 bytes plain
C5_Witness ==
    /\ pc = "attr"
    /\ \E i \in PlainCalls :
           Len(calls[i].value) = 49 /\ InternedStringToken(calls[i])
    /\ \E i \in PlainCalls :
           Len(calls[i].value) = 50 /\ PlainStringToken(calls[i])

----------------------------------------------------------------------------
(* Spec: one conversion, convert_reader_with_options.                       *)
(*                                                                         *)
(* The reader is quick_xml's with its default checks: an End event is      *)
(* delivered only for the innermost open element (anything else is the     *)
(* error of ReadError), no Text event is empty, and with trim_text set     *)
(* (whitespace not preserved) a Text event has no XML whitespace at either *)
(* end.  An element's attribute list may end in an error (AttrErr): the    *)
(* attribute iterator found a malformed or duplicated attribute.           *)

Attr(key, value) == [err |-> FALSE, key |-> key, value |-> value]

AttrErr == [err |-> TRUE, key |-> <<>>, value |-> <<>>]

Elements ==
    { [name |-> S_a, attrs |-> <<>>],
      [name |-> S_p_b, attrs |-> <<Attr(S_x_k, S_true), Attr(S_k, S_v)>>],
      [name |-> S_a, attrs |-> <<Attr(S_k, S_1e2), AttrErr>>] }

Texts == {T_space, T_nbsp, T_t, T_bad}

\* b' ' | b'\r' | b'\n' | b'\t'
IsXmlSpace(b) == b = 32 \/ b = 13 \/ b = 10 \/ b = 9

\* reader.config_mut().trim_text(!preserve_whitespace): the Text events the
\* reader delivers
ReaderDelivers(preserve_whitespace, s) ==
    /\ Len(s) > 0
    /\ ~preserve_whitespace => ~IsXmlSpace(s[1]) /\ ~IsXmlSpace(s[Len(s)])

Sinks == {Unbounded, Bounded(3), Bounded(4), Bounded(8)}

\* one byte more than write_utf takes
T_long == Rep(97, MAX_UNSIGNED_SHORT + 1)

Init ==
    /\ pc = "new"
    /\ fdo = NoSerializer
    /\ ser = NoSerializer
    /\ tag_stack = <<>>
    /\ warnings = 0
    /\ result = "Pending"
    /\ calls = <<>>
    /\ prev = NoSerializer

\* with_options(writer, preserve_whitespace)?; start_document()?
Convert(sink, preserve_whitespace) ==
    /\ pc = "new"
    /\ LET z == start_document(with_options(sink, preserve_whitespace))
       IN  /\ ser' = z
           /\ pc' = IF Failed(z) THEN "failed" ELSE "loop"
           /\ result' = IF Failed(z) THEN z.output.res ELSE "Pending"
    /\ prev' = ser
    /\ UNCHANGED <<fdo, tag_stack, warnings, calls>>

\* a pass after which the loop goes on whatever the pass returned
Handled_resumes(e, acc) ==
    /\ ser' = acc.z
    /\ warnings' = acc.w
    /\ tag_stack' = acc.stack
    /\ pc' = "loop"
    /\ result' = IF acc.res = "Ok" THEN "Pending" ELSE acc.res
    /\ calls' = Append(calls, e)
    /\ prev' = ser
    /\ UNCHANGED fdo

\* one pass of the loop that handled event e and ended as acc
Handled(e, acc) ==
    /\ ser' = acc.z
    /\ warnings' = acc.w
    /\ tag_stack' = acc.stack
    /\ pc' = IF acc.res = "Ok" THEN "loop" ELSE "failed"
    /\ result' = IF acc.res = "Ok" THEN "Pending" ELSE acc.res
    /\ calls' = Append(calls, e)
    /\ prev' = ser
    /\ UNCHANGED fdo

Reading == pc = "loop" /\ Len(calls) < MaxEvents

ThisPass == Pass(ser, warnings, tag_stack)

EvStart(el) ==
    /\ Reading
    /\ LET e == [kind |-> "Start", name |-> el.name, attrs |-> el.attrs]
       IN  Handled(e, OnStart(ThisPass, e))

EvEnd ==
    /\ Reading
    /\ Len(tag_stack) > 0
    /\ LET e == [kind |-> "End", name |-> tag_stack[Len(tag_stack)]]
       IN  \E overflow_checks \in BOOLEAN :
               Handled(e, OnEnd(ThisPass, e, overflow_checks))

EvEmpty(el) ==
    /\ Reading
    /\ LET e == [kind |-> "Empty", name |-> el.name, attrs |-> el.attrs]
       IN  \E overflow_checks \in BOOLEAN :
               Handled(e, OnEmpty(ThisPass, e, overflow_checks))

EvText(s) ==
    /\ Reading
    /\ ReaderDelivers(ser.preserve_whitespace, s)
    /\ LET e == [kind |-> "Text", text |-> s]
       IN  Handled(e, OnText(ThisPass, e))

EvCData(s) ==
    /\ Reading
    /\ LET e == [kind |-> "CData", text |-> s]
       IN  Handled(e, OnCData(ThisPass, e))

EvComment(s) ==
    /\ Reading
    /\ LET e == [kind |-> "Comment", text |-> s]
       IN  Handled(e, OnComment(ThisPass, e))

EvPI(target, content) ==
    /\ Reading
    /\ LET e == [kind |-> "PI", target |-> target, content |-> content]
       IN  Handled(e, OnPI(ThisPass, e))

EvDecl(encoding) ==
    /\ Reading
    /\ LET e == [kind |-> "Decl", encoding |-> encoding]
       IN  Handled(e, OnDecl(ThisPass, e))

EvDocType(s) ==
    /\ Reading
    /\ LET e == [kind |-> "DocType", text |-> s]
       IN  Handled(e, OnDocType(ThisPass, e))

EvGeneralRef(s) ==
    /\ Reading
    /\ LET e == [kind |-> "GeneralRef", text |-> s]
       IN  Handled(e, OnGeneralRef(ThisPass, e))

\* reader.read_event_into(&mut buf)? on malformed input
ReadError ==
    /\ pc = "loop"
    /\ pc' = "failed"
    /\ result' = "XmlParsing"
    /\ calls' = Append(calls, [kind |-> "Err"])
    /\ prev' = ser
    /\ UNCHANGED <<fdo, ser, tag_stack, warnings>>

\* Event::Eof => break; serializer.end_document()?; Ok(())
EvEof ==
    /\ pc = "loop"
    /\ LET z == end_document(CallSer(ser))
       IN  /\ ser' = z
           /\ pc' = IF Failed(z) THEN "failed" ELSE "done"
           /\ result' = z.output.res
    /\ calls' = Append(calls, [kind |-> "Eof"])
    /\ prev' = ser
    /\ UNCHANGED <<fdo, tag_stack, warnings>>

\* the texts over the ceiling of write_utf that the reader delivers here:
\* the model draws one as the first event of a document only
LongTexts == IF calls = <<>> THEN {T_long} ELSE {}

NoEncoding == [some |-> FALSE, err |-> FALSE, s |-> <<>>]

\* encoding="l1"
Latin1 == [some |-> TRUE, err |-> FALSE, s |-> <<108, 49>>]

Next ==
    \/ \E sink \in Sinks, preserve_whitespace \in BOOLEAN :
           Convert(sink, preserve_whitespace)
    \/ \E el \in Elements : EvStart(el)
    \/ EvEnd
    \/ \E el \in Elements : EvEmpty(el)
    \/ \E s \in Texts : EvText(s)
    \/ EvCData(T_t)
    \/ \E s \in {T_t} \cup LongTexts : EvComment(s)
    \/ \E content \in {S_empty, S_v} : EvPI(T_t, content)
    \/ \E encoding \in {NoEncoding, Latin1} : EvDecl(encoding)
    \/ EvDocType(T_t)
    \/ EvGeneralRef(T_t)
    \/ ReadError
    \/ EvEof

Spec == Init /\ [][Next]_vars

----------------------------------------------------------------------------
(* The output read back as a reader of the format reads it: the tokens     *)
(* after the magic, each with its event code, its value-type code and, for *)
(* a token that starts with an interned string, that string.               *)

U16(w, p) == w[p] * 256 + w[p + 1]

\* the string a literal at p carries
LiteralAt(w, p) == SubSeq(w, p + 4, p + 3 + U16(w, p + 2))

\* an interned string at p: a literal, which the reader adds to its pool,
\* or an index into the pool
ReadInterned(w, p, pool) ==
    IF U16(w, p) = 65535
    THEN [s |-> LiteralAt(w, p), next |-> p + 4 + U16(w, p + 2),
          pool |-> Append(pool, LiteralAt(w, p))]
    ELSE [s |-> pool[U16(w, p) + 1], next |-> p + 2, pool |-> pool]

\* the place after a value of the given type at p (not an interned string)
ValueEnd(w, p, type) ==
    CASE type \in {1, 12, 13} -> p
      [] type \in {2, 4, 5} -> p + 2 + U16(w, p)
      [] type \in {6, 7, 10} -> p + 4
      [] type \in {8, 9, 11} -> p + 8

ReadToken(code, type, name, next, pool) ==
    [code |-> code, type |-> type, name |-> name, next |-> next, pool |-> pool]

\* the rest of an attribute token whose name nm has been read
ReadAttribute(w, type, nm) ==
    IF type = 3
    THEN ReadToken(15, type, nm.s, ReadInterned(w, nm.next, nm.pool).next,
                   ReadInterned(w, nm.next, nm.pool).pool)
    ELSE ReadToken(15, type, nm.s, ValueEnd(w, nm.next, type), nm.pool)

\* the rest of a token whose payload is one interned string
ReadNamed(code, type, nm) == ReadToken(code, type, nm.s, nm.next, nm.pool)

TokenAt(w, p, pool) ==
    IF w[p] % 16 = 15
    THEN ReadAttribute(w, w[p] \div 16, ReadInterned(w, p + 1, pool))
    ELSE IF w[p] \div 16 = 3
    THEN ReadNamed(w[p] % 16, 3, ReadInterned(w, p + 1, pool))
    ELSE ReadToken(w[p] % 16, w[p] \div 16, <<>>,
                   ValueEnd(w, p + 1, w[p] \div 16), pool)

RECURSIVE TokensFrom(_, _, _)
RECURSIVE TokensAfter(_, _)

TokensFrom(w, p, pool) ==
    IF p > Len(w) THEN <<>> ELSE TokensAfter(w, TokenAt(w, p, pool))

TokensAfter(w, t) ==
    <<[code |-> t.code, type |-> t.type, name |-> t.name, end |-> t.next - 1]>>
    \o TokensFrom(w, t.next, t.pool)

\* the tokens of the output so far; every pass that succeeded wrote whole
\* tokens
Tokens == TokensFrom(ser.output.writer, 5, <<>>)

\* the step that led here was the pass for the last event of calls, and it
\* succeeded
Passed(kind) ==
    /\ pc = "loop"
    /\ Len(calls) > 0
    /\ calls[Len(calls)].kind = kind

LastEvent == calls[Len(calls)]

\* what the last step put into the output
Emitted ==
    SubSeq(ser.output.writer, Len(prev.output.writer) + 1,
           Len(ser.output.writer))

\* a string token: control byte, byte count in two bytes, the bytes
StringToken(code, s) == <<code + 32>> \o BigEndian(Len(s), 2) \o s

\* White_Space code points that the texts drawn have: all of the text is
\* space, tab, line feed, carriage return or U+00A0
WhitespaceOnly(s) ==
    \A i \in 1..Len(s) :
        \/ s[i] \in {32, 9, 10, 13}
        \/ s[i] = 194 /\ i < Len(s) /\ s[i + 1] = 160
        \/ s[i] = 160 /\ i > 1 /\ s[i - 1] = 194

\* C6: a Text event whose pass succeeds: if the text is whitespace-only,
\* the pass emits exactly one ignorable-whitespace token with the text
\* when whitespace is preserved, and emits nothing and leaves the encoder
\* as it was when it is not; if the text is not whitespace-only, the pass
\* emits exactly one text token with the text under either setting.
C6_TextWhitespace ==
    Passed("Text") =>
        IF WhitespaceOnly(LastEvent.text)
        THEN IF ser.preserve_whitespace
             THEN Emitted = StringToken(7, LastEvent.text)
             ELSE Emitted = <<>> /\ ser = prev
        ELSE Emitted = StringToken(4, LastEvent.text)

\* a whitespace-only text (U+00A0) was dropped with whitespace not
\* preserved, after a text token had been written for "t"
C6_Witness ==
    /\ Passed("Text")
    /\ WhitespaceOnly(LastEvent.text)
    /\ ~ser.preserve_whitespace
    /\ ser = prev
    /\ Len(calls) = 2
    /\ calls[1].kind = "Text"
    /\ ser.output.writer = <<65, 66, 88, 0, 16, 36, 0, 1, 116>>

\* Event::Start (n, A), then, if that pass succeeded, Event::End n
ThenEnd(started, e, overflow_checks) ==
    IF started.res # "Ok" THEN started
    ELSE OnEnd(Pass(started.z, started.w, started.stack),
               [kind |-> "End", name |-> e.name], overflow_checks)

StartThenEnd(acc, e, overflow_checks) ==
    ThenEnd(OnStart(acc, [kind |-> "Start", name |-> e.name,
                          attrs |-> e.attrs]),
            e, overflow_checks)

\* same output bytes, same pool, same depth, same result
SameEncoding(acc, z, res) ==
    /\ acc.z.output.writer = z.output.writer
    /\ acc.z.output.string_pool = z.output.string_pool
    /\ acc.z.output.interned_strings = z.output.interned_strings
    /\ acc.z.tag_count = z.tag_count
    /\ (acc.res = "Ok") <=> (res = "Ok")

LastWas(kind) ==
    /\ pc \in {"loop", "failed"}
    /\ Len(calls) > 0
    /\ calls[Len(calls)].kind = kind

\* C7: the pass for a self-closing element (n, A) leaves the encoder with
\* the output bytes, the pool and the depth that the pass for a start
\* element (n, A) followed by the pass for the end element n leaves it
\* with, from the same encoder; if one fails so does the other, with the
\* same bytes written.
C7_EmptyAsStartEnd ==
    LastWas("Empty") =>
        \A overflow_checks \in BOOLEAN :
            SameEncoding(StartThenEnd(Pass(prev, 0, tag_stack), LastEvent,
                                      overflow_checks),
                         ser, IF pc = "loop" THEN "Ok" ELSE result)

\* <p:b x:k="true" k="v"/> converted inside an open element, and End after
\* Start gives the same encoder
C7_Witness ==
    /\ Passed("Empty")
    /\ Len(LastEvent.attrs) = 2
    /\ Len(tag_stack) = 1
    /\ SameEncoding(StartThenEnd(Pass(prev, 0, tag_stack), LastEvent, TRUE),
                    ser, "Ok")
    /\ ser.tag_count = 1
    /\ ser.output.writer # prev.output.writer

IsStartTag(t) == t.code = 2

IsEndTag(t) == t.code = 3

OpensElement(e) == e.kind \in {"Start", "Empty"}

ClosesElement(e) == e.kind \in {"End", "Empty"}

Names(events) == [i \in 1..Len(events) |-> events[i].name]

\* start-tag and end-tag tokens among the first n tokens
StartsIn(toks, n) == Cardinality({i \in 1..n : toks[i].code = 2})

EndsIn(toks, n) == Cardinality({i \in 1..n : toks[i].code = 3})

TagTokens(toks) ==
    /\ \A i \in 1..Len(toks) : toks[i].code \in {2, 3} => toks[i].type = 3
    /\ Names(SelectSeq(toks, IsStartTag)) = Names(SelectSeq(calls, OpensElement))
    /\ Names(SelectSeq(toks, IsEndTag)) = Names(SelectSeq(calls, ClosesElement))
    /\ \A n \in 1..Len(toks) :
           toks[n].code = 3 => EndsIn(toks, n) <= StartsIn(toks, n)
    /\ (pc = "done" /\ tag_stack = <<>>) =>
           /\ StartsIn(toks, Len(toks)) = Len(SelectSeq(calls, OpensElement))
           /\ EndsIn(toks, Len(toks)) = StartsIn(toks, Len(toks))

\* C8: while a conversion succeeds, the output has one start-tag token for
\* every element started (Start or Empty event) and one end-tag token for
\* every element ended (End or Empty event), in order and each with value
\* type interned-string and the element's name as its interned payload; no
\* prefix of the token stream has more end-tag than start-tag tokens (it
\* is enough to count at the prefixes that end in an end-tag token); a
\* finished conversion of N elements, all closed, has N of each.
C8_TagTokens ==
    pc \in {"loop", "done"} => \A toks \in {Tokens} : TagTokens(toks)

\* a finished conversion of two elements, one inside the other
C8_Witness ==
    /\ pc = "done"
    /\ tag_stack = <<>>
    /\ Len(SelectSeq(calls, OpensElement)) = 2
    /\ ser.tag_count = 0
    /\ \E i \in 1..Len(calls) : calls[i].kind = "End"
    /\ \A toks \in {Tokens} :
           /\ StartsIn(toks, Len(toks)) = 2
           /\ EndsIn(toks, Len(toks)) = 2
           /\ StartsIn(toks, 3) = 2

RECURSIVE Fifteens(_)
Fifteens(n) == IF n = 0 THEN <<>> ELSE <<15>> \o Fifteens(n - 1)

\* the event codes of the tokens of one input event
CodesOf(e, preserve_whitespace) ==
    CASE e.kind = "Start" -> <<2>> \o Fifteens(Len(e.attrs))
      [] e.kind = "End" -> <<3>>
      [] e.kind = "Empty" -> <<2>> \o Fifteens(Len(e.attrs)) \o <<3>>
      [] e.kind = "Text" ->
            IF ~WhitespaceOnly(e.text) THEN <<4>>
            ELSE IF preserve_whitespace THEN <<7>> ELSE <<>>
      [] e.kind = "CData" -> <<5>>
      [] e.kind = "Comment" -> <<9>>
      [] e.kind = "PI" -> <<8>>
      [] e.kind = "Decl" -> <<>>
      [] e.kind = "DocType" -> <<10>>
      [] e.kind = "GeneralRef" -> <<6>>
      [] e.kind = "Eof" -> <<1>>

RECURSIVE CodesFrom(_, _, _)
CodesFrom(events, i, preserve_whitespace) ==
    IF i > Len(events) THEN <<>>
    ELSE CodesOf(events[i], preserve_whitespace)
         \o CodesFrom(events, i + 1, preserve_whitespace)

Framed(toks) ==
    /\ [i \in 1..Len(toks) |-> toks[i].code]
           = <<0>> \o CodesFrom(calls, 1, ser.preserve_whitespace)
    /\ toks[1].type = 1
    /\ toks[1].end = 5
    /\ pc = "done" =>
           /\ toks[Len(toks)].code = 1
           /\ toks[Len(toks)].type = 1
           /\ toks[Len(toks)].end = Len(ser.output.writer)
           /\ Cardinality({i \in 1..Len(toks) : toks[i].code = 1}) = 1
    /\ Cardinality({i \in 1..Len(toks) : toks[i].code = 0}) = 1

\* C9: while a conversion succeeds the output is the magic 41 42 58 00,
\* then the start-document token, there before any event is handled, then
\* the tokens of the events in the order of the events, and nothing is
\* flushed; a finished conversion has after these the end-document token,
\* once, as the last byte, and has flushed once.
C9_Framing ==
    pc \in {"loop", "done"} =>
        /\ SubSeq(ser.output.writer, 1, 4) = <<65, 66, 88, 0>>
        /\ ser.output.writer[5] = 16
        /\ calls = <<>> => ser.output.writer = <<65, 66, 88, 0, 16>>
        /\ \A toks \in {Tokens} : Framed(toks)
        /\ ser.output.flushed = IF pc = "done" THEN 1 ELSE 0
        /\ pc = "done" =>
               /\ ser.output.writer[Len(ser.output.writer)] = 17
               /\ result = "Ok"

\* a finished conversion of three events: 41 42 58 00, start-document,
\* tokens, end-document
C9_Witness ==
    /\ pc = "done"
    /\ Len(calls) = 3
    /\ calls[1].kind = "Start"
    /\ calls[2].kind = "End"
    /\ ser.output.flushed = 1
    /\ ser.output.writer
           = <<65, 66, 88, 0, 16, 50, 255, 255, 0, 1, 97, 51, 0, 0, 17>>

----------------------------------------------------------------------------
(* Failure of a conversion.                                                *)

\* the conversion has returned an error
Failure == result \notin {"Pending", "Ok"}

\* the events whose payload is one text
TextKinds == {"Text", "CData", "Comment", "DocType", "GeneralRef"}

HasText(e) == e.kind \in TextKinds

HasAttrErr(e) ==
    /\ e.kind \in {"Start", "Empty"}
    /\ \E i \in 1..Len(e.attrs) : e.attrs[i].err

\* the sink has refused a byte: it is full
SinkFull ==
    ser.output.limited /\ Len(ser.output.writer) = ser.output.limit

\* the conversion failed before the loop: the sink refused a byte of the
\* magic or of the start-document token
FailedAtStart ==
    /\ result = "Io"
    /\ ser.output.res = "Io"
    /\ SinkFull
    /\ ser.output.writer
           = SubSeq(<<65, 66, 88, 0, 16>>, 1, Len(ser.output.writer))

\* the conversion failed in the pass for the last event of calls: what was
\* on the sink before the pass is still there, the pass appended what it
\* wrote before the failing step, no end-document token follows and nothing
\* is flushed, and the error returned is the one of the failing step
FailedInPass ==
    /\ SubSeq(ser.output.writer, 1, Len(prev.output.writer))
           = prev.output.writer
    /\ ser.output.flushed = 0
    /\ ser.output.res # "Ok" => result = ser.output.res
    /\ result = "XmlParsing" <=> LastEvent.kind = "Err"
    /\ LastEvent.kind = "Err" => ser = prev
    /\ result = "Io" <=> ser.output.res = "Io"
    /\ result = "Io" => SinkFull
    /\ result = "Utf8Error" <=>
           HasText(LastEvent) /\ ~from_utf8_ok(LastEvent.text)
    /\ result = "Utf8Error" => Emitted = <<>>
    /\ result = "StringTooLong" <=>
           /\ HasText(LastEvent)
           /\ Len(LastEvent.text) > 65535
           /\ ~SinkFull
    /\ result = "StringTooLong" => Emitted = <<9 + 32>>
    /\ result = "AttrError" => HasAttrErr(LastEvent)
    /\ (HasAttrErr(LastEvent) /\ ~ser.output.limited)
           => result = "AttrError"
    /\ result \in {"XmlParsing", "Io", "Utf8Error", "StringTooLong",
                   "AttrError"}

\* what holds of a conversion in every state: it goes on only while no
\* step has failed, and a failure is the one of FailedAtStart or
\* FailedInPass
FailureReported ==
    /\ Failure <=> pc = "failed"
    /\ pc = "loop" => ser.output.res = "Ok"
    /\ pc = "done" => result = "Ok" /\ ser.output.res = "Ok"
    /\ (Failure /\ calls = <<>>) => FailedAtStart
    /\ (Failure /\ calls # <<>>) => FailedInPass

\* C11: once a step of a conversion has failed (the reader on malformed
\* input, a string over 65535 bytes, bytes that are not UTF-8, a sink that
\* refuses a byte), nothing changes any more: no further event is consumed,
\* no byte is appended to the sink, in particular no end-document token,
\* the bytes written before the failure stay on the sink as they are, the
\* failing step is not tried again, and the error of the failing step is
\* what the conversion returns.
C11_FailureIsTerminal ==
    /\ []FailureReported
    /\ [][Failure => UNCHANGED vars]_vars

\* a conversion that failed on the malformed attribute of its second
\* element: the start tag and the attribute before the malformed one are
\* on the sink, after the tokens of the first element, and AttrError is
\* returned
C11_Witness ==
    /\ pc = "failed"
    /\ result = "AttrError"
    /\ Len(calls) = 2
    /\ calls[1].kind = "Empty"
    /\ LastEvent.kind = "Start"
    /\ Len(prev.output.writer) > 5
    /\ Len(Emitted) > 0
    /\ ser.output.writer[Len(ser.output.writer)] # 17

----------------------------------------------------------------------------
(* The nesting depth of the emitter.                                       *)

\* the calls of one method made so far on the emitter, failed ones too
CallsOf(op) == Cardinality({i \in DOMAIN calls : calls[i].op = op})

\* the depth is the usize n; a negative tag_count of the model stands for a
\* usize of the upper half (usize::MAX for -1), which is no count of calls
DepthIs(n) == ser.tag_count >= 0 /\ ser.tag_count = n

\* C13: in every state of the emitter tag_count is non-negative and is the
\* number of start_tag calls made so far minus the number of end_tag calls
\* made so far, whatever the sequence of calls, an end_tag with no tag open
\* included.
C13_DepthAsStated ==
    pc \in {"emitter", "panicked"} =>
        /\ CallsOf("start_tag") - CallsOf("end_tag") >= 0
        /\ DepthIs(CallsOf("start_tag") - CallsOf("end_tag"))

\* C13, for the pipeline: in every state of a conversion tag_count is the
\* number of elements opened minus the number closed in the passes made
\* so far, and no pass panics.
C13_PipelineDepth ==
    pc \in {"loop", "done"} =>
        /\ result # "Panic"
        /\ ser.tag_count = Len(tag_stack)
        /\ DepthIs(Len(SelectSeq(calls, OpensElement))
                       - Len(SelectSeq(calls, ClosesElement)))

\* an end_tag made on a new emitter in a build without overflow checks:
\* the call succeeded, the end-tag token is on the sink after the magic,
\* and tag_count is usize::MAX
C13_Witness ==
    /\ pc = "emitter"
    /\ Len(calls) = 1
    /\ calls[1].op = "end_tag"
    /\ calls[1].res = "Ok"
    /\ ser.tag_count = -1
    /\ ser.output.writer = <<65, 66, 88, 0, 51, 255, 255, 0, 1, 97>>

----------------------------------------------------------------------------
(* SpecPool: a FastDataOutput whose pool is about to run out of indices.   *)
(*                                                                         *)
(* A program reaches a pool of n strings by n calls of write_interned_utf  *)
(* with n distinct strings.  The model does not walk through 65535 such    *)
(* calls: it starts from Pooled(n), the object those calls leave behind on *)
(* a sink that takes everything, and PooledIsReached states that one more  *)
(* call leads from Pooled(n) to Pooled(n + 1).  hist and calls log the     *)
(* calls made from there on.                                               *)

\* calls of write_interned_utf made on the object in SpecPool
MaxPoolWrites == 2

\* the i-th of the distinct strings written: three bytes below 128
PoolName(i) == <<(i \div 16384) % 128, (i \div 128) % 128, i % 128>>

\* the i of PoolName(i)
PoolNumber(s) == s[1] * 16384 + s[2] * 128 + s[3]

\* byte j of the n literals FF FF 00 03 b1 b2 b3
PooledByte(j) ==
    IF j % 7 < 2 THEN 255
    ELSE IF j % 7 = 2 THEN 0
    ELSE IF j % 7 = 3 THEN 3
    ELSE PoolName(j \div 7)[(j % 7) - 3]

\* FastDataOutput::new(Vec::new()) after write_interned_utf(PoolName(0)),
\* ..., write_interned_utf(PoolName(n - 1)), for n <= 65536
Pooled(n) ==
    [ writer           |-> [j \in 1..(7 * n) |-> PooledByte(j - 1)] \o <<>>,
      limited          |-> FALSE,
      limit            |-> 0,
      flushed          |-> 0,
      string_pool      |-> [s \in {PoolName(i) : i \in 0..(n - 1)}
                               |-> PoolNumber(s)],
      interned_strings |-> [i \in 1..n |-> PoolName(i - 1)] \o <<>>,
      hist             |-> <<>>,
      res              |-> "Ok" ]

\* the pools SpecPool starts from
PoolStarts == {0, 1, MAX_UNSIGNED_SHORT - 1, MAX_UNSIGNED_SHORT}

\* the strings SpecPool writes, by number
PoolDraws == {0, 1, MAX_UNSIGNED_SHORT - 1, MAX_UNSIGNED_SHORT,
              MAX_UNSIGNED_SHORT + 1}

InitPool ==
    /\ pc = "pool"
    /\ \E n \in PoolStarts : fdo = Pooled(n)
    /\ ser = NoSerializer
    /\ tag_stack = <<>>
    /\ warnings = 0
    /\ result = "Pending"
    /\ calls = <<>>
    /\ prev = NoSerializer

\* calls: each call with the number of its string, the length of the
\* output before and after it, the two bytes it wrote first, and what it
\* returned
WritePooled(i) ==
    /\ pc = "pool"
    /\ Len(calls) < MaxPoolWrites
    /\ LET w == write_interned_utf(Call(fdo), PoolName(i))
       IN  /\ fdo' = w
           /\ calls' = Append(calls,
                  [op |-> "write_interned_utf", arg |-> i,
                   at |-> Len(fdo.writer), end |-> Len(w.writer),
                   short |-> U16(w.writer, Len(fdo.writer) + 1),
                   res |-> w.res])
    /\ UNCHANGED <<pc, ser, tag_stack, warnings, result, prev>>

NextPool == \E i \in PoolDraws : WritePooled(i)

SpecPool == InitPool /\ [][NextPool]_vars

\* the object without the history of its calls
Unlogged(o) == [o EXCEPT !.hist = <<>>]

\* Pooled(n) is what the calls it stands for leave behind: Pooled(0) is a
\* new object, and the call that interns string number n on Pooled(n) gives
\* Pooled(n + 1); stated for the behaviours that make that call
PooledIsReached ==
    /\ Pooled(0) = FastDataOutput_new(Unbounded)
    /\ \A n \in PoolStarts :
           (/\ pc = "pool"
            /\ Len(calls) = 1
            /\ calls[1].arg = n
            /\ calls[1].at = 7 * n) => Unlogged(fdo) = Pooled(n + 1)

\* the calls of the behaviour that wrote a literal, and those that wrote a
\* reference to one
LiteralCalls == {j \in DOMAIN calls : calls[j].end - calls[j].at = 7}

ReferenceCalls == {j \in DOMAIN calls : calls[j].end - calls[j].at = 2}

\* the index the pool holds for the string of call j
IndexOf(j) == fdo.string_pool[PoolName(calls[j].arg)]

\* C12: whatever strings have been interned on one encoder, every index
\* a call assigns to the pool entry it makes and every index a call writes
\* as a reference is in 0..65534: 65535 is the index of no pool entry, and
\* where it is written a new literal follows.
C12_IndexRange ==
    pc = "pool" =>
        /\ \A j \in LiteralCalls :
               IndexOf(j) \in 0..(MAX_UNSIGNED_SHORT - 1)
        /\ \A j \in ReferenceCalls :
               calls[j].short \in 0..(MAX_UNSIGNED_SHORT - 1)
        /\ \A j \in DOMAIN calls :
               calls[j].short = MAX_UNSIGNED_SHORT => j \in LiteralCalls

\* 65535 strings are pooled, the 65536th has been written as a literal
\* and then once more: the second write is the two bytes FF FF alone
C12_Witness ==
    /\ pc = "pool"
    /\ Len(fdo.interned_strings) = MAX_UNSIGNED_SHORT + 1
    /\ Len(calls) = 2
    /\ calls[1].arg = MAX_UNSIGNED_SHORT
    /\ calls[2].arg = MAX_UNSIGNED_SHORT
    /\ 1 \in LiteralCalls
    /\ 2 \in ReferenceCalls
    /\ calls[2].short = MAX_UNSIGNED_SHORT

\* the 0-based place of the literal of call j among the literals of the
\* stream: those written before the first call of the behaviour, then
\* those of the literal calls before j
LiteralOrdinal(j) ==
    (Len(fdo.interned_strings) - Cardinality(LiteralCalls))
    + Cardinality({k \in LiteralCalls : k < j})

\* the call before j that wrote the literal of the string of j, if any
LiteralCallOf(j) ==
    {k \in LiteralCalls : k < j /\ calls[k].arg = calls[j].arg}

\* the 0-based place in the stream of the literal of the string that call
\* j refers to: the literal of an earlier call, or else one of the literals
\* PoolName(0), PoolName(1), ... written before the first call
ReferredOrdinal(j) ==
    IF LiteralCallOf(j) # {}
    THEN LiteralOrdinal(CHOOSE k \in LiteralCallOf(j) : TRUE)
    ELSE calls[j].arg

\* C14: the pool gives its strings the indices 0, 1, 2, ... in the order
\* in which their literals are written, no index is given to two strings,
\* the pool map and the list of interned strings hold the same strings,
\* each at the place its index names, and so every reference written for
\* a string is the 0-based place of that string's literal among the
\* literals written before it in the stream.
C14_DenseIndices ==
    pc = "pool" =>
        /\ Cardinality(DOMAIN fdo.string_pool) = Len(fdo.interned_strings)
        /\ \A j \in LiteralCalls :
               /\ IndexOf(j) = LiteralOrdinal(j)
               /\ fdo.interned_strings[LiteralOrdinal(j) + 1]
                      = PoolName(calls[j].arg)
        /\ \A j \in DOMAIN calls :
               fdo.interned_strings[IndexOf(j) + 1] = PoolName(calls[j].arg)
        /\ \A j, k \in DOMAIN calls :
               calls[j].arg # calls[k].arg => IndexOf(j) # IndexOf(k)
        /\ \A j \in ReferenceCalls : calls[j].short = ReferredOrdinal(j)

\* 65535 strings are pooled, the 65536th and the 65537th have been
\* written: the 65537th has index 0, the index of the first string
C14_Witness ==
    /\ pc = "pool"
    /\ Len(fdo.interned_strings) = MAX_UNSIGNED_SHORT + 2
    /\ Len(calls) = 2
    /\ calls[2].arg = MAX_UNSIGNED_SHORT + 1
    /\ LiteralCalls = {1, 2}
    /\ IndexOf(2) = 0
    /\ fdo.string_pool[PoolName(0)] = 0

====
